---- MODULE Spec2Model ----
(***************************************************************************)
(* Model of utils/ledger_api.py: the Entry text rendering and the Journal  *)
(* append / can_revert / revert protocol over a journal file.              *)
(*                                                                         *)
(* Text is a sequence of one-character strings, so that byte offsets,      *)
(* rstrip() and the format widths are computed as the code computes them.  *)
(* An optional value (Python None) is the empty sequence, a present value  *)
(* x is <<x>>.                                                             *)
(***************************************************************************)
EXTENDS Integers, Sequences, FiniteSets, TLC

NL == "\n"

SP == " "

None == <<>>

Some(x) == <<x>>

\* str.rstrip() strips these (the whitespace of the model's alphabet)
Whitespace == {SP, NL, "\t"}

\* "\n".join(lines)
RECURSIVE Join(_)
Join(lines) ==
    IF lines = <<>> THEN <<>>
    ELSE IF Len(lines) = 1 THEN lines[1]
    ELSE lines[1] \o <<NL>> \o Join(Tail(lines))

\* str.rstrip()
RECURSIVE RStrip(_)
RStrip(s) ==
    IF s = <<>> THEN <<>>
    ELSE IF s[Len(s)] \in Whitespace THEN RStrip(SubSeq(s, 1, Len(s) - 1))
    ELSE s

\* str.splitlines(): the lines of s, no empty last line after a final "\n"
RECURSIVE SplitLinesFrom(_, _)
SplitLinesFrom(s, cur) ==
    IF s = <<>> THEN (IF cur = <<>> THEN <<>> ELSE <<cur>>)
    ELSE IF Head(s) = NL THEN <<cur>> \o SplitLinesFrom(Tail(s), <<>>)
    ELSE SplitLinesFrom(Tail(s), Append(cur, Head(s)))

SplitLines(s) == SplitLinesFrom(s, <<>>)

Spaces(n) == [i \in 1..n |-> SP]

\* "{:<34s}": left-justified in a field of the given width, never cut
PadRight(s, w) == IF Len(s) >= w THEN s ELSE s \o Spaces(w - Len(s))

\* "{:>12}": right-justified in a field of the given width, never cut
PadLeft(s, w) == IF Len(s) >= w THEN s ELSE Spaces(w - Len(s)) \o s

AccountWidth == 34

AmountWidth == 12

Indent == Spaces(4)

Dollar == <<"$">>

USD == <<"U", "S", "D">>

NoneText == <<"N", "o", "n", "e">>

\* format() of an optional text: None prints as "None"
Str(opt) == IF opt = None THEN NoneText ELSE opt[1]

EntryAccount(name, amount, currency) ==
    [name |-> name, amount |-> amount, currency |-> currency]

\* a table whose empty token prints the dollar sign
normalize_currency_dollar(currency) ==
    IF currency = Some(USD) \/ currency = Some(Dollar) \/ currency = Some(<<>>)
        THEN [symbol |-> Some(Dollar), position |-> "left"]
    ELSE [symbol |-> currency, position |-> "right"]

\* Entry.currency_conversions / Entry.normalize_currency
normalize_currency(currency) ==
    IF currency = Some(USD) \/ currency = Some(Dollar)
        THEN [symbol |-> Some(Dollar), position |-> "left"]
    ELSE IF currency = Some(<<>>)
        THEN [symbol |-> Some(<<>>), position |-> "left"]
    ELSE [symbol |-> currency, position |-> "right"]

\* one posting line of Entry.__str__
AccountLine(account) ==
    LET currency == normalize_currency(account.currency)
    IN  IF account.amount = None
            THEN Indent \o account.name
        ELSE IF currency.position = "left"
            THEN Indent \o PadRight(account.name, AccountWidth) \o Spaces(2)
                 \o PadLeft(Str(currency.symbol) \o account.amount[1], AmountWidth)
        ELSE Indent \o PadRight(account.name, AccountWidth) \o Spaces(2)
             \o PadLeft(account.amount[1], AmountWidth) \o <<SP>>
             \o Str(currency.symbol)

NoteLines(note) ==
    IF note = None \/ note = Some(<<>>) THEN <<>>
    ELSE LET ls == SplitLines(note[1])
         IN  [i \in 1..Len(ls) |-> Indent \o <<";", SP>> \o ls[i]]

\* Entry.__str__
EntryStr(e) ==
    Join(<<(<<>>), e.date \o <<SP>> \o e.payee>>
         \o NoteLines(e.note)
         \o [i \in 1..Len(e.accounts) |-> AccountLine(e.accounts[i])])

(***************************************************************************)
(* The entries the callers build (each is a value Entry.__init__ stores).  *)
(***************************************************************************)
Date15 == <<"2", "0", "1", "9", "-", "0", "2", "-", "1", "5">>

Date16 == <<"2", "0", "1", "9", "-", "0", "2", "-", "1", "6">>

\* a note, an amount in an unknown currency and an elided posting
EntryA ==
    [payee |-> <<"A">>, date |-> Date15, note |-> Some(<<"n">>),
     accounts |-> <<EntryAccount(<<"F">>, Some(<<"5", ".", "0", "0">>),
                                 Some(<<"P", "L", "N">>)),
                    EntryAccount(<<"C">>, None, None)>>]

\* an empty payee: the header line, and so the rendering, ends in a space
EntryB ==
    [payee |-> <<>>, date |-> Date16, note |-> None, accounts |-> <<>>]

Entries == {EntryA, EntryB}

\* what print(entry, file=ledger_file) writes
Written(e) == EntryStr(e) \o <<NL>>

(***************************************************************************)
(* The journal file and the Journal object.                                *)
(***************************************************************************)
VARIABLES
    exists,     \* the file at Journal.path exists
    file,       \* its content (<<>> while it does not exist)
    last_data,  \* Journal.last_data: None or Some(LastData)
    hist,       \* the calls made so far, each with the file before and after
    pc,         \* position of a revert() that is running step by step
    rv          \* locals of that revert(): stream position, foreign bytes

vars == <<exists, file, last_data, hist, pc, rv>>

\* bound on the number of calls in one behaviour
MaxOps == 3

LastData(entry, old, new) ==
    [last_entry |-> entry, old_position |-> old, new_position |-> new]

\* the bytes another process may append to the file
ExtChunks == {<<"x">>, <<NL>>} \cup {Written(e) : e \in Entries}

\* files a session can start on, and the offsets a caller can have measured
OneWrite == {<<>>} \cup {Written(e) : e \in Entries}

Offsets == {Len(a) + Len(b) : a \in OneWrite, b \in OneWrite}

LastDatas ==
    {None} \cup {Some(LastData(e, o, n)) :
                    e \in Entries, o \in Offsets, n \in Offsets}

\* text-stream read() after seek(pos): everything from pos to the end
ReadFrom(f, pos) == SubSeq(f, pos + 1, Len(f))

\* a truncate that cuts nothing
Truncate_Noop(f, size) == f

\* truncate(size): cut at size, or extend with zero bytes
Truncate(f, size) ==
    IF size <= Len(f) THEN SubSeq(f, 1, size)
    ELSE f \o [i \in 1..(size - Len(f)) |-> "\\0"]

\* an append that writes the rendering without the newline print() adds
AppendedFile_NoNewline(f, e) == f \o EntryStr(e)

\* the file after Journal.append(entry): open(path, "a") creates it
AppendedFile(f, e) == f \o Written(e)

\* a can_revert that skips the end-of-file test
can_revert_end_unchecked(f, ld) == TRUE

\* Journal.can_revert, lines 214-217: seek(0, 2) against new_position
can_revert_end_ok(f, ld) == Len(f) = ld.new_position

\* a can_revert that trims the rendering too before comparing
can_revert_content_trimmed(f, ld) ==
    RStrip(EntryStr(ld.last_entry)) = RStrip(ReadFrom(f, ld.old_position))

\* Journal.can_revert, lines 219-223
can_revert_content_ok(f, ld) ==
    EntryStr(ld.last_entry) = RStrip(ReadFrom(f, ld.old_position))

\* Journal.can_revert: its return value, or the exception open() raises
can_revert(f, ex, ld) ==
    IF ld = None THEN "False"
    ELSE IF ~ex THEN "FileNotFoundError"
    ELSE IF ~can_revert_end_ok(f, ld[1]) THEN "False"
    ELSE IF ~can_revert_content_ok(f, ld[1]) THEN "False"
    ELSE "True"

\* a can_revert that opens the file before it looks at last_data
can_revert_opens_first(ld) == TRUE

\* whether can_revert reaches its open()
can_revert_opens(ld) == ld # None

\* Journal.revert, line 232: tell() of the "a+" stream against new_position
revert_end_ok(pos, ld) == ld.new_position = pos

\* Journal.revert, lines 235-236
revert_content_ok(f, ld) ==
    RStrip(ReadFrom(f, ld.old_position)) = EntryStr(ld.last_entry)

\* a revert that truncates at the end of the recorded window
revert_truncate_at_end(f, ld) == Truncate(f, ld.new_position)

\* Journal.revert, line 239
revert_truncate(f, ld) == Truncate(f, ld.old_position)

\* whether revert reaches its open(path, "a+"), which creates the file
revert_opens(ld) == ld # None

\* Journal.revert run without interruption: outcome and the file it leaves
revert(f, ex, ld) ==
    IF ~revert_opens(ld)
        THEN [result |-> "CannotRevert", file |-> f, exists |-> ex]
    ELSE IF ~revert_end_ok(Len(f), ld[1])
        THEN [result |-> "CannotRevert", file |-> f, exists |-> TRUE]
    ELSE IF ~revert_content_ok(f, ld[1])
        THEN [result |-> "CannotRevert", file |-> f, exists |-> TRUE]
    ELSE [result |-> "ok", file |-> revert_truncate(f, ld[1]), exists |-> TRUE]

\* the record of one call: what it was given, what it answered, and the
\* file and the Journal's record before it and the file after it
Call(op, entry, chunk, result, opened, f1, ex1) ==
    [op |-> op, entry |-> entry, chunk |-> chunk, result |-> result,
     opened |-> opened, pre_file |-> file, pre_exists |-> exists,
     pre_data |-> last_data, post_file |-> f1, post_exists |-> ex1]

Idle == pc = "idle"

Room == Len(hist) < MaxOps

NoRevert == [pos |-> 0, ext |-> <<>>, idx |-> 0]

\* Journal.__init__: the object exists once the engine has read the file
Init ==
    /\ exists = TRUE
    /\ file \in OneWrite
    /\ last_data \in LastDatas
    /\ hist = <<>>
    /\ pc = "idle"
    /\ rv = NoRevert

\* Journal.append(entry)
JournalAppend(e) ==
    /\ Idle /\ Room
    /\ file' = AppendedFile(file, e)
    /\ exists' = TRUE
    /\ hist' = Append(hist, Call("append", Some(e), <<>>, "ok", TRUE, file', TRUE))
    /\ UNCHANGED <<last_data, pc, rv>>

\* Journal.can_revert()
JournalCanRevert ==
    /\ Idle /\ Room
    /\ hist' = Append(hist, Call("can_revert", None, <<>>,
                                 can_revert(file, exists, last_data),
                                 can_revert_opens(last_data), file, exists))
    /\ UNCHANGED <<exists, file, last_data, pc, rv>>

\* Journal.revert(), not interrupted
JournalRevert ==
    /\ Idle /\ Room
    /\ LET r == revert(file, exists, last_data)
       IN  /\ file' = r.file
           /\ exists' = r.exists
           /\ hist' = Append(hist, Call("revert", None, <<>>, r.result,
                                        revert_opens(last_data), r.file, r.exists))
    /\ UNCHANGED <<last_data, pc, rv>>

\* another process appends bytes to the file (also while a revert() runs)
ExternalAppend(c) ==
    /\ Room
    /\ file' = file \o c
    /\ exists' = TRUE
    /\ hist' = Append(hist, Call("ext_append", None, c, "ok", FALSE, file', TRUE))
    /\ rv' = IF Idle THEN rv ELSE [rv EXCEPT !.ext = @ \o c]
    /\ UNCHANGED <<last_data, pc>>

\* another process removes the file
ExternalDelete ==
    /\ Idle /\ Room
    /\ exists
    /\ file' = <<>>
    /\ exists' = FALSE
    /\ hist' = Append(hist, Call("ext_delete", None, <<>>, "ok", FALSE, <<>>, FALSE))
    /\ UNCHANGED <<last_data, pc, rv>>

Next ==
    \/ \E e \in Entries : JournalAppend(e)
    \/ JournalCanRevert
    \/ JournalRevert
    \/ \E c \in ExtChunks : ExternalAppend(c)
    \/ ExternalDelete

Spec == Init /\ [][Next]_vars

(***************************************************************************)
(* Journal.revert() statement by statement, with the other process free to *)
(* append between any two of its statements.                               *)
(***************************************************************************)
\* the running revert() ends: its call record gets the outcome
Finish(result, f1) ==
    /\ hist' = [hist EXCEPT ![rv.idx] =
                    [@ EXCEPT !.result = result, !.chunk = rv.ext,
                              !.post_file = f1, !.post_exists = TRUE]]
    /\ pc' = "idle"
    /\ rv' = NoRevert

\* lines 228-231: the None test, then open(path, "a+") leaves the stream at
\* the end of the file as it is now
RevertBegin ==
    /\ Idle /\ Room
    /\ IF ~revert_opens(last_data)
         THEN /\ hist' = Append(hist, Call("revert", None, <<>>, "CannotRevert",
                                           FALSE, file, exists))
              /\ UNCHANGED <<exists, pc, rv>>
         ELSE /\ hist' = Append(hist, Call("revert", None, <<>>, "running",
                                           TRUE, file, TRUE))
              /\ exists' = TRUE
              /\ pc' = "opened"
              /\ rv' = [pos |-> Len(file), ext |-> <<>>, idx |-> Len(hist) + 1]
    /\ UNCHANGED <<file, last_data>>

\* lines 232-233
RevertCheckEnd ==
    /\ pc = "opened"
    /\ IF revert_end_ok(rv.pos, last_data[1])
         THEN pc' = "checked" /\ UNCHANGED <<hist, rv>>
         ELSE Finish("CannotRevert", file)
    /\ UNCHANGED <<exists, file, last_data>>

\* lines 235-237: read() reads up to the end of the file as it is now
RevertRead ==
    /\ pc = "checked"
    /\ IF revert_content_ok(file, last_data[1])
         THEN pc' = "matched" /\ UNCHANGED <<hist, rv>>
         ELSE Finish("CannotRevert", file)
    /\ UNCHANGED <<exists, file, last_data>>

\* line 239
RevertTruncate ==
    /\ pc = "matched"
    /\ file' = revert_truncate(file, last_data[1])
    /\ Finish("ok", file')
    /\ UNCHANGED <<exists, last_data>>

NextConc ==
    \/ \E e \in Entries : JournalAppend(e)
    \/ JournalCanRevert
    \/ RevertBegin
    \/ RevertCheckEnd
    \/ RevertRead
    \/ RevertTruncate
    \/ \E c \in ExtChunks : ExternalAppend(c)
    \/ ExternalDelete

SpecConc == Init /\ [][NextConc]_vars

(***************************************************************************)
(* Journal.__iter__: the file read back block by block.                    *)
(***************************************************************************)
Digits == {"0", "1", "2", "3", "4", "5", "6", "7", "8", "9"}

\* str.lstrip()
RECURSIVE LStrip(_)
LStrip(s) ==
    IF s = <<>> THEN <<>>
    ELSE IF Head(s) \in Whitespace THEN LStrip(Tail(s))
    ELSE s

\* str.strip()
Strip(s) == LStrip(RStrip(s))

\* the offsets of the newlines of a text, in order
NewlineAt(f) ==
    LET at == {i \in 1..Len(f) : f[i] = NL}
    IN  [k \in 1..Cardinality(at) |->
            CHOOSE p \in at : Cardinality({q \in at : q < p}) = k - 1]

\* iterating a text file: one line per newline, and a last line without a
\* newline when the file does not end in one (the newline left out here)
TextLines(f) ==
    LET nl == NewlineAt(f)
        n == Len(nl)
        start(k) == IF k = 1 THEN 1 ELSE nl[k - 1] + 1
        tail == IF start(n + 1) <= Len(f) THEN 1 ELSE 0
    IN  [k \in 1..(n + tail) |->
            SubSeq(f, start(k), IF k <= n THEN nl[k] - 1 ELSE Len(f))]

\* map(str.strip, ledger_file): the lines of the file, each stripped
FileLines(f) ==
    LET ls == TextLines(f) IN [i \in 1..Len(ls) |-> Strip(ls[i])]

\* date_regexp: \d{4}-\d{2}-\d{2}|\d{4}/\d{2}/\d{2}
IsDate(s) ==
    /\ Len(s) = 10
    /\ \A i \in {1, 2, 3, 4, 6, 7, 9, 10} : s[i] \in Digits
    /\ \/ s[5] = "-" /\ s[8] = "-"
       \/ s[5] = "/" /\ s[8] = "/"

\* re.match of "(date)(?: [!*])?\s+(.*)" on a line: None, or the two groups.
\* The marker is taken when whitespace follows it; otherwise the regexp
\* backtracks to no marker.
HeaderMatch(line) ==
    IF Len(line) < 11 \/ ~IsDate(SubSeq(line, 1, 10)) THEN None
    ELSE LET rest == SubSeq(line, 11, Len(line))
         IN  IF /\ Len(rest) >= 3 /\ rest[1] = SP /\ rest[2] \in {"!", "*"}
                /\ rest[3] \in Whitespace
                 THEN Some([date |-> SubSeq(line, 1, 10),
                            payee |-> LStrip(SubSeq(rest, 3, Len(rest)))])
             ELSE IF rest[1] \in Whitespace
                 THEN Some([date |-> SubSeq(line, 1, 10), payee |-> LStrip(rest)])
             ELSE None

\* re.fullmatch of "\s*;\s*(.*)" on a line: None, or the group
NoteMatch(line) ==
    LET l == LStrip(line)
    IN  IF l # <<>> /\ Head(l) = ";" THEN Some(LStrip(Tail(l))) ELSE None

\* prepare_entry(entry_lines): the item, or the exception it raises
prepare_entry(entry_lines) ==
    LET m == HeaderMatch(entry_lines[1])
    IN  IF m = None THEN [error |-> "AttributeError", item |-> None]
        ELSE IF Len(entry_lines) < 2 THEN [error |-> "IndexError", item |-> None]
        ELSE LET n == NoteMatch(entry_lines[2])
             IN  [error |-> "ok",
                  item |-> Some([body |-> Join(entry_lines),
                                 date |-> m[1].date,
                                 payee |-> m[1].payee,
                                 note |-> IF n = None THEN <<>> ELSE n[1]])]

\* the loop of __iter__ over the remaining lines: entry is the block being
\* collected, items what was yielded so far; an exception ends it
RECURSIVE IterLoop(_, _, _)
IterLoop(lines, entry, items) ==
    IF lines = <<>> THEN [error |-> "ok", items |-> items]
    ELSE IF Head(lines) # <<>>
        THEN IterLoop(Tail(lines), Append(entry, Head(lines)), items)
    ELSE IF entry # <<>>
        THEN LET r == prepare_entry(entry)
             IN  IF r.error # "ok" THEN [error |-> r.error, items |-> items]
                 ELSE IterLoop(Tail(lines), <<>>, Append(items, r.item[1]))
    ELSE IterLoop(Tail(lines), <<>>, items)

\* list(journal): the items yielded, and how the iteration ended
Iterate(f, ex) ==
    IF ~ex THEN [error |-> "FileNotFoundError", items |-> <<>>]
    ELSE IterLoop(FileLines(f), <<>>, <<>>)

\* Journal.__iter__ run to its end (list(journal))
JournalIter ==
    /\ Idle /\ Room
    /\ LET r == Iterate(file, exists)
       IN  hist' = Append(hist, Call("iter", None, <<>>, r.error, TRUE, file, exists)
                                @@ [items |-> r.items])
    /\ UNCHANGED <<exists, file, last_data, pc, rv>>

\* a header alone: no note, no posting
EntryH ==
    [payee |-> <<"H">>, date |-> Date15, note |-> None, accounts |-> <<>>]

IterEntries == Entries \cup {EntryH}

\* a top-level comment, as a block of its own
CommentBlock == <<NL, ";", SP, "c", NL>>

\* an entry written by hand: slashes in the date, a cleared marker, a note
MarkedBlock ==
    <<NL>> \o <<"2", "0", "1", "9", "/", "0", "2", "/", "1", "7">>
    \o <<SP, "*", SP, "M", NL, SP, SP, ";", SP, "m", NL>>

\* what else gets appended to the file: a blank line, and the two blocks
IterChunks == {<<NL>>, CommentBlock, MarkedBlock}

IterPieces == {<<>>} \cup {Written(e) : e \in IterEntries} \cup IterChunks

InitIter ==
    /\ exists = TRUE
    /\ file \in {a \o b : a \in IterPieces, b \in IterPieces}
    /\ last_data = None
    /\ hist = <<>>
    /\ pc = "idle"
    /\ rv = NoRevert

NextIter ==
    \/ \E e \in IterEntries : JournalAppend(e)
    \/ \E c \in IterChunks : ExternalAppend(c)
    \/ ExternalDelete
    \/ JournalIter

SpecIter == InitIter /\ [][NextIter]_vars

(***************************************************************************)
(* Entry.__init__: the postings given in one of three forms.  A posting    *)
(* given to the constructor is a tuple <<name>>, <<name, amount>> or       *)
(* <<name, amount, currency>>, amount and currency being optional texts.   *)
(***************************************************************************)
\* str.partition(" "): the text before the first space and the text after
\* it; the whole text and the empty text when there is no space
partition_kept(s) ==
    LET at == {i \in 1..Len(s) : s[i] = SP}
        p == CHOOSE i \in at : \A j \in at : i <= j
    IN  IF at = {} THEN [head |-> s, tail |-> <<>>]
        ELSE [head |-> SubSeq(s, 1, p - 1), tail |-> SubSeq(s, p, Len(s))]

partition(s) ==
    LET at == {i \in 1..Len(s) : s[i] = SP}
        p == CHOOSE i \in at : \A j \in at : i <= j
    IN  IF at = {} THEN [head |-> s, tail |-> <<>>]
        ELSE [head |-> SubSeq(s, 1, p - 1), tail |-> SubSeq(s, p + 1, Len(s))]

\* the element of a one-element set: names a value that is computed once
Only(S) == CHOOSE x \in S : TRUE

\* the sign, the integer digits and the fraction digits of a decimal text
\* without surrounding whitespace
DecimalOf(t) ==
    LET signed == t # <<>> /\ Head(t) \in {"-", "+"}
    IN  Only({LET dots == {i \in 1..Len(body) : body[i] = "."}
                  dot == IF dots = {} THEN Len(body) + 1
                         ELSE CHOOSE i \in dots : TRUE
              IN  [sign |-> IF signed /\ Head(t) = "-" THEN <<"-">> ELSE <<>>,
                   int |-> SubSeq(body, 1, dot - 1),
                   frac |-> SubSeq(body, dot + 1, Len(body)),
                   dots |-> Cardinality(dots)]
              : body \in {IF signed THEN Tail(t) ELSE t}})

\* the same of any text (surrounding whitespace dropped, as float() does)
Decimal(s) == Only({DecimalOf(t) : t \in {Strip(s)}})

\* float(s) does not raise ValueError (for texts of digits, signs and dots)
IsFloat(s) ==
    \E d \in {Decimal(s)} :
        /\ d.dots <= 1
        /\ \A i \in 1..Len(d.int) : d.int[i] \in Digits
        /\ \A i \in 1..Len(d.frac) : d.frac[i] \in Digits
        /\ Len(d.int) + Len(d.frac) >= 1

\* a text of digits without its leading zeros, "0" if nothing is left
RECURSIVE NoLeadingZeros(_)
NoLeadingZeros(ds) ==
    IF ds = <<>> THEN <<"0">>
    ELSE IF Head(ds) = "0" /\ Len(ds) > 1 THEN NoLeadingZeros(Tail(ds))
    ELSE ds

\* "{:.2f}".format(float(s)) for a decimal text of at most two fraction
\* digits, where the conversion is exact
format_2f(s) ==
    Only({d.sign \o NoLeadingZeros(d.int) \o <<".">>
          \o d.frac \o [i \in 1..(2 - Len(d.frac)) |-> "0"]
          : d \in {Decimal(s)}})

\* a finally block that leaves the currency as it was given
finish_posting_kept(name, amount, currency) ==
    IF amount # None
        THEN IF IsFloat(amount[1])
                THEN [error |-> "ok",
                      posting |-> Some(EntryAccount(name, Some(format_2f(amount[1])),
                                                    currency))]
                ELSE [error |-> "ValueError", posting |-> None]
    ELSE [error |-> "ok", posting |-> Some(EntryAccount(name, None, currency))]

\* lines 110-124: the finally block and the append
finish_posting(name, amount, currency) ==
    IF amount # None
        THEN IF IsFloat(amount[1])
                THEN [error |-> "ok",
                      posting |-> Some(EntryAccount(name, Some(format_2f(amount[1])),
                                                    currency))]
                ELSE [error |-> "ValueError", posting |-> None]
    ELSE [error |-> "ok", posting |-> Some(EntryAccount(name, None, None))]

\* lines 93-109: the three forms, told apart by the length of the tuple
make_posting(account) ==
    IF Len(account) = 3
        THEN finish_posting(account[1], account[2], account[3])
    ELSE IF Len(account) = 2
        THEN IF account[2] = None
                THEN [error |-> "AttributeError", posting |-> None]
                ELSE Only({finish_posting(account[1], Some(p.head), Some(p.tail))
                           : p \in {partition(account[2][1])}})
    ELSE finish_posting(account[1], None, None)

\* the loop of Entry.__init__ over the postings, stopped by an exception
RECURSIVE make_postings(_)
make_postings(accounts) ==
    IF accounts = <<>> THEN [error |-> "ok", postings |-> <<>>]
    ELSE Only({IF r.error # "ok" THEN [error |-> r.error, postings |-> <<>>]
               ELSE Only({[error |-> rest.error,
                           postings |-> <<r.posting[1]>> \o rest.postings]
                          : rest \in {make_postings(Tail(accounts))}})
               : r \in {make_posting(Head(accounts))}})

\* Entry(payee, date, accounts, note): the entry, or the exception
Entry_init(payee, date, accounts, note) ==
    Only({IF r.error # "ok" THEN [error |-> r.error, entry |-> None]
          ELSE [error |-> "ok",
                entry |-> Some([payee |-> payee, date |-> date, note |-> note,
                                accounts |-> r.postings])]
          : r \in {make_postings(accounts)}})

\* bound on the number of postings given to one constructor call
MaxPostings == 2

PLN == <<"P", "L", "N">>

AmountTokens ==
    {<<"5">>, <<"1", "9", ".", "9", "9">>, <<"-", "0", "7", ".", "5">>, <<"x">>}

CurrencyTokens == {USD, Dollar, PLN, <<>>}

\* the postings a caller writes, in the three forms
PostingInputs ==
    {<<(<<"F">>)>>}
    \cup {<<(<<"F">>), a>> :
            a \in {None} \cup {Some(t) : t \in AmountTokens}
                  \cup {Some(t \o <<SP>> \o c) :
                            t \in AmountTokens, c \in CurrencyTokens}}
    \cup {<<(<<"F">>), a, c>> :
            a \in {None} \cup {Some(t) : t \in AmountTokens},
            c \in {None} \cup {Some(t) : t \in CurrencyTokens}}

\* the lists of at most n postings
PostingLists(n) == UNION {[1..k -> PostingInputs] : k \in 0..n}

InitEntry ==
    /\ exists = TRUE
    /\ file = <<>>
    /\ last_data = None
    /\ hist = <<>>
    /\ pc = "idle"
    /\ rv = NoRevert

\* Entry(payee="A", date=..., accounts=accounts)
EntryInit(accounts) ==
    /\ hist = <<>>
    /\ \E r \in {Entry_init(<<"A">>, Date15, accounts, None)} :
           hist' = <<Call("entry", r.entry, <<>>, r.error, FALSE, file, exists)
                     @@ [given |-> accounts]>>
    /\ UNCHANGED <<exists, file, last_data, pc, rv>>

\* str(entry) of the entry just built
EntryPrint ==
    /\ Len(hist) = 1 /\ hist[1].op = "entry" /\ hist[1].result = "ok"
    /\ hist' = Append(hist, Call("str", hist[1].entry, EntryStr(hist[1].entry[1]),
                                 "ok", FALSE, file, exists)
                            @@ [given |-> hist[1].given])
    /\ UNCHANGED <<exists, file, last_data, pc, rv>>

NextEntry ==
    \/ hist = <<>> /\ \E accounts \in PostingLists(MaxPostings) : EntryInit(accounts)
    \/ EntryPrint

SpecEntry == InitEntry /\ [][NextEntry]_vars

(***************************************************************************)
(* The queries of a Journal.  The engine is a process outside the program: *)
(* what it prints and its exit status are inputs of each call.             *)
(***************************************************************************)
\* the attributes Journal.__init__ assigns on the object (lines 203-207)
InstanceAttributes == {"path", "last_data", "accounts", "payees", "currencies"}

\* the methods of the class and the subcommand each hands to _call
Subcommand ==
    [accounts |-> "accounts", payees |-> "payees", currencies |-> "commodities"]

Queries == DOMAIN Subcommand

EngineRuns ==
    {[exit |-> 0, stdout |-> <<>>],
     [exit |-> 0, stdout |-> <<"A", NL>>],
     [exit |-> 1, stdout |-> <<>>]}

\* Journal._call: the output of the engine, or LedgerCliError when
\* check_output raises CalledProcessError for a non-zero exit status
_call(run) ==
    IF run.exit # 0 THEN [error |-> "LedgerCliError", output |-> <<>>]
    ELSE [error |-> "ok", output |-> run.stdout]

\* journal.<name>(): the attribute of the object is looked up before the
\* method of the class; the sets assigned at construction are not callable
query(name, run) ==
    IF name \in InstanceAttributes
        THEN [error |-> "TypeError", output |-> <<>>, invoked |-> None]
    ELSE LET r == _call(run)
         IN  [error |-> r.error, output |-> r.output,
              invoked |-> Some(Subcommand[name])]

JournalQuery(name, run) ==
    /\ Idle /\ Room
    /\ LET r == query(name, run)
       IN  hist' = Append(hist, Call("query", None, r.output, r.error, FALSE,
                                     file, exists)
                                @@ [name |-> name, run |-> run,
                                    invoked |-> r.invoked])
    /\ UNCHANGED <<exists, file, last_data, pc, rv>>

InitQuery ==
    /\ exists = TRUE
    /\ file \in OneWrite
    /\ last_data = None
    /\ hist = <<>>
    /\ pc = "idle"
    /\ rv = NoRevert

NextQuery ==
    \/ \E e \in Entries : JournalAppend(e)
    \/ \E name \in Queries, run \in EngineRuns : JournalQuery(name, run)

SpecQuery == InitQuery /\ [][NextQuery]_vars

(***************************************************************************)
(* Properties.                                                             *)
(***************************************************************************)
N == Len(hist)

Last == hist[N]

Prev == hist[N - 1]

\* the call left the file as it found it
Untouched(c) == c.post_file = c.pre_file /\ c.post_exists = c.pre_exists

\* the call refused: can_revert() answered False, revert() raised CannotRevert
Refused(c) ==
    \/ c.op = "can_revert" /\ c.result = "False"
    \/ c.op = "revert" /\ c.result = "CannotRevert"

C2_Original ==
    (N > 1 /\ Prev.op = "append" /\ Last.op = "can_revert") =>
        Last.result = "True"

\* C3: a revert() called right after an append(e) succeeds and leaves the
\* file as it was before the append.
C3_Original ==
    (N > 1 /\ Prev.op = "append" /\ Last.op = "revert") =>
        /\ Last.result = "ok"
        /\ file = Prev.pre_file
        /\ exists = Prev.pre_exists

\* C4: a revert() called right after a revert() that succeeded raises
\* CannotRevert and leaves the file as it found it.
C4_SecondRevertFails ==
    (N > 1 /\ Prev.op = "revert" /\ Prev.result = "ok" /\ Last.op = "revert") =>
        /\ Last.result = "CannotRevert"
        /\ file = Last.pre_file
        /\ exists = Last.pre_exists

C4_Witness ==
    /\ N > 1 /\ Prev.op = "revert" /\ Prev.result = "ok" /\ Last.op = "revert"
    /\ Len(Prev.post_file) < Len(Prev.pre_file)

\* a revert() succeeded at call i and no append was made since
RevertedAt(i) ==
    /\ hist[i].op = "revert" /\ hist[i].result = "ok"
    /\ \A j \in (i + 1)..N : hist[j].op # "append"

\* ... and the file was not modified from outside since either
RevertedQuietlyAt(i) ==
    /\ hist[i].op = "revert" /\ hist[i].result = "ok"
    /\ \A j \in (i + 1)..N : hist[j].op \in {"can_revert", "revert"}

TamperedAt(i, k) ==
    /\ hist[i].op = "append"
    /\ \A j \in (i + 1)..N : hist[j].op \in {"ext_append", "can_revert", "revert"}
    /\ k > i /\ hist[k].op = "ext_append" /\ hist[k].chunk # <<>>
    /\ \A j \in (i + 1)..(k - 1) : hist[j].result # "ok" \/ hist[j].op # "revert"

EndRecordedAt(i) ==
    \/ last_data = None
    \/ last_data[1].new_position = Len(hist[i].post_file)

C7_Original ==
    (N > 2 /\ hist[N - 2].op = "append" /\ Prev.op = "append"
           /\ Last.op = "revert") =>
        /\ Last.result = "ok"
        /\ file = hist[N - 2].post_file

\* C8: whatever another process appends between the statements of a
\* revert(), the revert() either raises CannotRevert and the file holds what
\* it held before plus the bytes appended meanwhile, or it succeeds and the
\* file holds what it held before minus the recorded append, plus the bytes
\* appended meanwhile.
C8_Original ==
    \A i \in 1..N :
        (hist[i].op = "revert" /\ hist[i].result # "running") =>
            IF hist[i].result = "CannotRevert"
                THEN hist[i].post_file = hist[i].pre_file \o hist[i].chunk
                ELSE hist[i].post_file =
                        SubSeq(hist[i].pre_file, 1,
                               hist[i].pre_data[1].old_position)
                        \o hist[i].chunk

\* C9: can_revert() returns True exactly in the states where a revert()
\* would succeed.
C9_SameValidation ==
    (can_revert(file, exists, last_data) = "True")
        <=> (revert(file, exists, last_data).result = "ok")

C9_Witness ==
    /\ can_revert(file, exists, last_data) = "True"
    /\ N > 0 /\ Last.op = "append"

\* C10: with no record, can_revert() returns False and revert() raises
\* CannotRevert, and neither reaches its open() nor changes the file.
C10_NoRecordNoOpen ==
    (N > 0 /\ Last.op \in {"can_revert", "revert"} /\ last_data = None) =>
        /\ Refused(Last)
        /\ ~Last.opened
        /\ Untouched(Last)
        /\ file = Last.pre_file /\ exists = Last.pre_exists

C10_Witness ==
    /\ N > 0 /\ Last.op = "revert" /\ last_data = None
    /\ Last.result = "CannotRevert"
    /\ ~exists

\* the maximal runs of non-blank lines among the lines, cur being the run
\* in progress
RECURSIVE Runs(_, _)
Runs(lines, cur) ==
    IF lines = <<>> THEN (IF cur = <<>> THEN <<>> ELSE <<cur>>)
    ELSE IF Head(lines) # <<>> THEN Runs(Tail(lines), Append(cur, Head(lines)))
    ELSE (IF cur = <<>> THEN <<>> ELSE <<cur>>) \o Runs(Tail(lines), <<>>)

\* the blocks of the file a listing was made of
BlocksOf(c) == Runs(FileLines(c.pre_file), <<>>)

HasHeader(b) == HeaderMatch(b[1]) # None

\* a header line and at least one more line
WellFormed(b) == HasHeader(b) /\ Len(b) >= 2

\* the file ends in a blank line, so that a blank line follows every block
EndsBlank(c) ==
    LET ls == FileLines(c.pre_file) IN ls # <<>> /\ ls[Len(ls)] = <<>>

Listed(c) == c.op = "iter" /\ c.pre_exists

\* C11: a listing of a file made of well-formed blocks yields one item per
\* maximal run of non-blank lines, in file order, the last run included when
\* no blank line follows it.
C11_Original ==
    (N > 0 /\ Listed(Last)
           /\ \A i \in 1..Len(BlocksOf(Last)) : WellFormed(BlocksOf(Last)[i])) =>
        /\ Last.result = "ok"
        /\ Len(Last.items) = Len(BlocksOf(Last))
        /\ \A i \in 1..Len(Last.items) :
              Last.items[i].body = Join(BlocksOf(Last)[i])

\* C12: a listing of a file with a block whose first line is no header (every
\* block being followed by a blank line, and every other block being
\* well-formed) raises nothing but MalformedEntry and yields every
\* well-formed block, before and after that one.
C12_Original ==
    (N > 0 /\ Listed(Last) /\ EndsBlank(Last)
           /\ (\E j \in 1..Len(BlocksOf(Last)) : ~HasHeader(BlocksOf(Last)[j]))
           /\ (\A j \in 1..Len(BlocksOf(Last)) :
                 HasHeader(BlocksOf(Last)[j]) => WellFormed(BlocksOf(Last)[j]))) =>
        /\ Last.result \in {"ok", "MalformedEntry"}
        /\ \A i \in 1..Len(BlocksOf(Last)) : WellFormed(BlocksOf(Last)[i]) =>
              \E k \in 1..Len(Last.items) :
                  Last.items[k].body = Join(BlocksOf(Last)[i])

\* the note of an entry as a listing gives it: the empty text when absent
NoteOrEmpty(e) == IF e.note = None THEN <<>> ELSE e.note[1]

\* C13: a listing made right after append(e) yields an item with the date,
\* the payee and the note of e.
C13_Original ==
    (N > 1 /\ Prev.op = "append" /\ Listed(Last)) =>
        \E k \in 1..Len(Last.items) :
            /\ Last.items[k].date = Prev.entry[1].date
            /\ Last.items[k].payee = Prev.entry[1].payee
            /\ Last.items[k].note = NoteOrEmpty(Prev.entry[1])

\* C19: a listing of a file whose blocks all start with a header (a blank
\* line following each) does not fail, and the note of each item is the text
\* after the ";" of the block's second line, or empty when that line is no
\* note or the block has no second line.
C19_Original ==
    (N > 0 /\ Listed(Last) /\ EndsBlank(Last)
           /\ \A i \in 1..Len(BlocksOf(Last)) : HasHeader(BlocksOf(Last)[i])) =>
        /\ Last.result = "ok"
        /\ Len(Last.items) = Len(BlocksOf(Last))
        /\ \A i \in 1..Len(Last.items) :
              LET b == BlocksOf(Last)[i]
              IN  Last.items[i].note =
                      IF Len(b) >= 2 /\ NoteMatch(b[2]) # None
                          THEN NoteMatch(b[2])[1] ELSE <<>>

\* C18: a revert() that raises leaves the file as it found it: same
\* content, and still missing if it was missing.
C18_Original ==
    (N > 0 /\ Last.op = "revert" /\ Last.result = "CannotRevert") =>
        /\ Untouched(Last)
        /\ file = Last.pre_file
        /\ exists = Last.pre_exists

\* the file the call found ends at new_position and holds, from
\* old_position on, exactly what append wrote for the recorded entry
WindowIntact(c) ==
    /\ c.pre_exists
    /\ c.pre_data # None
    /\ Len(c.pre_file) = c.pre_data[1].new_position
    /\ ReadFrom(c.pre_file, c.pre_data[1].old_position)
           = Written(c.pre_data[1].last_entry)

\* C20: when the file still holds the recorded entry's rendering and newline
\* at [old_position, new_position) and ends there, can_revert() returns True
\* and revert() truncates at old_position, also for an entry whose rendering
\* ends in whitespace.
C20_Original ==
    (N > 0 /\ Last.op \in {"can_revert", "revert"} /\ WindowIntact(Last)) =>
        IF Last.op = "can_revert" THEN Last.result = "True"
        ELSE /\ Last.result = "ok"
             /\ file = SubSeq(Last.pre_file, 1, Last.pre_data[1].old_position)

\* the calls that built or printed an entry
Built == {k \in 1..N : hist[k].op \in {"entry", "str"} /\ hist[k].result = "ok"}

Printed == {k \in 1..N : hist[k].op = "str"}

\* the postings the entry of call k stores, and the line printed for one
Stored(k) == hist[k].entry[1].accounts

PrintedLine(k, i) == TextLines(hist[k].chunk)[i + 2]

\* C14: every stored posting whose amount is absent has its currency absent
\* too, whatever form and whatever currency the caller gave, and it prints
\* as the indent and the account name only.
C14_NoCurrencyWithoutAmount ==
    /\ \A k \in Built : \A i \in 1..Len(Stored(k)) :
           Stored(k)[i].amount = None => Stored(k)[i].currency = None
    /\ \A k \in Printed : \A i \in 1..Len(Stored(k)) :
           Stored(k)[i].amount = None =>
               PrintedLine(k, i) = Indent \o hist[k].given[i][1]

\* an entry was printed that was given a currency without an amount
C14_Witness ==
    \E k \in Printed : \E i \in 1..Len(Stored(k)) :
        /\ hist[k].given[i] = <<(<<"F">>), None, Some(USD)>>
        /\ Stored(k)[i].amount = None

\* the line of a posting whose symbol goes before the amount, and after it
LeftLine(name, symbol, amount) ==
    Indent \o PadRight(name, AccountWidth) \o Spaces(2)
    \o PadLeft(symbol \o amount, AmountWidth)

RightLine(name, symbol, amount) ==
    Indent \o PadRight(name, AccountWidth) \o Spaces(2)
    \o PadLeft(amount, AmountWidth) \o <<SP>> \o symbol

\* C15: normalize_currency maps USD, $ and the empty text to symbol $ on the
\* left and any other token to itself on the right; a posting with an amount
\* and an empty currency prints with the $ before the amount.
C15_Original ==
    \A k \in Printed : \A i \in 1..Len(Stored(k)) :
        LET p == Stored(k)[i]
        IN  (p.amount # None /\ p.currency # None) =>
                IF p.currency[1] \in {USD, Dollar, <<>>}
                    THEN /\ normalize_currency(p.currency)
                              = [symbol |-> Some(Dollar), position |-> "left"]
                         /\ PrintedLine(k, i)
                              = LeftLine(p.name, Dollar, p.amount[1])
                ELSE /\ normalize_currency(p.currency)
                          = [symbol |-> p.currency, position |-> "right"]
                     /\ PrintedLine(k, i)
                          = RightLine(p.name, p.currency[1], p.amount[1])

\* C15 (amended): USD and $ map to symbol $ on the left, the empty text maps
\* to the empty symbol on the left, any other token to itself on the right;
\* a posting with an amount and an empty currency prints the bare amount,
\* right-aligned, with no symbol.
C15_EmptyStaysEmpty ==
    \A k \in Printed : \A i \in 1..Len(Stored(k)) :
        LET p == Stored(k)[i]
        IN  (p.amount # None /\ p.currency # None) =>
                IF p.currency[1] \in {USD, Dollar}
                    THEN /\ normalize_currency(p.currency)
                              = [symbol |-> Some(Dollar), position |-> "left"]
                         /\ PrintedLine(k, i)
                              = LeftLine(p.name, Dollar, p.amount[1])
                ELSE IF p.currency[1] = <<>>
                    THEN /\ normalize_currency(p.currency)
                              = [symbol |-> Some(<<>>), position |-> "left"]
                         /\ PrintedLine(k, i)
                              = LeftLine(p.name, <<>>, p.amount[1])
                ELSE /\ normalize_currency(p.currency)
                          = [symbol |-> p.currency, position |-> "right"]
                     /\ PrintedLine(k, i)
                          = RightLine(p.name, p.currency[1], p.amount[1])

\* an entry was printed with an amount in the empty currency, one in USD
\* and the line of the first holds no $
C15_Witness ==
    \E k \in Printed :
        /\ Len(Stored(k)) = 2
        /\ Stored(k)[1].amount # None /\ Stored(k)[1].currency = Some(<<>>)
        /\ Stored(k)[2].amount # None /\ Stored(k)[2].currency = Some(USD)
        /\ \A j \in 1..Len(PrintedLine(k, 1)) : PrintedLine(k, 1)[j] # "$"

\* the postings given, the i-th replaced by p
Replaced(given, i, p) == [given EXCEPT ![i] = p]

\* the call k of the constructor gave what the same call gives for other
\* postings, exception or entry, and printed the same text
SameOutcome(k, accounts) ==
    LET r == Entry_init(<<"A">>, Date15, accounts, None)
    IN  /\ hist[k].result = r.error
        /\ hist[k].entry = r.entry
        /\ hist[k].op = "str" => hist[k].chunk = EntryStr(r.entry[1])

\* C16: a posting given as (name, "a c"), a and c without a space, is stored
\* and printed as the posting given as (name, a, c) is; a posting given as
\* (name, "a") is stored with the empty currency.
C16_MergedIsExplicit ==
    \A k \in 1..N : hist[k].op \in {"entry", "str"} =>
        \A i \in 1..Len(hist[k].given) :
            LET g == hist[k].given[i]
            IN  (Len(g) = 2 /\ g[2] # None) =>
                    /\ \A a \in AmountTokens, c \in CurrencyTokens :
                           g[2][1] = a \o <<SP>> \o c =>
                               SameOutcome(k, Replaced(hist[k].given, i,
                                                       <<g[1], Some(a), Some(c)>>))
                    /\ (hist[k].result = "ok" /\ \A j \in 1..Len(g[2][1]) :
                                                    g[2][1][j] # SP) =>
                           /\ Stored(k)[i].currency = Some(<<>>)
                           /\ Stored(k)[i].amount = Some(format_2f(g[2][1]))

\* an entry was printed that was given "5 USD" and "-07.5" in the merged form
C16_Witness ==
    \E k \in Printed :
        /\ hist[k].given = <<(<<(<<"F">>), Some(<<"5", SP>> \o USD)>>),
                             (<<(<<"F">>), Some(<<"-", "0", "7", ".", "5">>)>>)>>
        /\ Stored(k)[1] = EntryAccount(<<"F">>, Some(<<"5", ".", "0", "0">>),
                                       Some(USD))

\* C17: each of accounts(), payees() and currencies() runs the engine anew
\* with its subcommand and returns the text the engine printed; a non-zero
\* exit status of the engine surfaces as LedgerCliError.
C17_Original ==
    (N > 0 /\ Last.op = "query") =>
        /\ Last.invoked = Some(Subcommand[Last.name])
        /\ IF Last.run.exit = 0
               THEN Last.result = "ok" /\ Last.chunk = Last.run.stdout
           ELSE Last.result = "LedgerCliError"

====
